---- MODULE Spec2Model ----
(***************************************************************************)
(* The FPM decode chain of ryu_vrouter/protocol/fpm:                       *)
(*   FpmHeader.parser -> Netlink.parser -> RtNetlink.parser, the latter    *)
(*   looping over RtAttribute.parser and the four attribute classes.       *)
(*                                                                         *)
(* Buffers are sequences of bytes (0..255).  A parser call either raises   *)
(* (fault # "none") or returns the triple (record, next class, rest).      *)
(*                                                                         *)
(* The source as committed has three kinds of name slips that Python only  *)
(* reports when the line runs:                                             *)
(*   fpm_header.py:28   super(Netlink, self) inside FpmHeader.__init__     *)
(*                      -> TypeError on every FpmHeader construction       *)
(*   rtnetlink.py:141   bare _MIN_LEN (a class attribute, no module name)  *)
(*                      -> NameError on every RtAttribute.parser call      *)
(*   rtnetlink.py:214, 266  bare _PACK_STR -> NameError                    *)
(* (rtnetlink.py:184/236 "else if" and the forward references of line      *)
(* 124..127 are read as "elif" and as the classes defined below: there is  *)
(* no other program to read).  The variable namesBound selects the reading *)
(* of one run: FALSE is the source as written, TRUE binds the three names  *)
(* to what they evidently denote (FpmHeader, cls._MIN_LEN,                 *)
(* self._PACK_STR).  Both readings are initial states, so an invariant of  *)
(* Spec holds of the code however the slips are read.                      *)
(***************************************************************************)
EXTENDS Integers, Sequences, FiniteSets, TLC

VARIABLES
    namesBound,  \* the reading of the name slips (see above), fixed per run
    wire,        \* the attributes the input's RTNETLINK payload was built from
    cut,         \* how many bytes were cut off the end of the built frame
    input,       \* the buffer handed to the entry parser
    entry,       \* the parser the caller starts with
    stage,       \* the parser to run next, or "attrs"/"break"/"done"/"raised"
    buf,         \* the current buffer (each parser's buf)
    calls,       \* every finished parser call: its argument and its outcome
    rtbuf,       \* the buffer RtNetlink.parser was called with
    rt_hdr,      \* the nine header fields RtNetlink.parser unpacked
    rt_atts,     \* RtNetlink.parser's rt_atts list
    iters,       \* the number of loop bodies RtNetlink.parser has run
    cursors,     \* the cursor's offset in rtbuf after each append
    built,       \* every attribute constructor call: its arguments and its outcome
    fault        \* the exception that left the chain, or "none"

vars == << namesBound, wire, cut, input, entry, stage, buf, calls, rtbuf, rt_hdr,
           rt_atts, iters, cursors, built, fault >>

\* ------------------------------------------------------------------ bounds
MaxAttrs == 2
MaxCut == 3
ProbeLen == 36

\* ------------------------------------------------------- program constants
FpmMinLen == 8
NetlinkMinLen == 16
RtNetlinkMinLen == 12
RtAttrMinLen == 4
RTA_DST == 1
RTA_OIF == 4
RTA_GATEWAY == 5
RTA_PRIORITY == 6
RTM_NEWROUTE == 24

\* ----------------------------------------------------------- byte helpers
Min(a, b) == IF a < b THEN a ELSE b

\* Python buf[n:]
Drop(b, n) == IF n >= Len(b) THEN <<>> ELSE SubSeq(b, n + 1, Len(b))

\* Python buf[lo:hi] (clamped to the buffer, never raising)
Slice(b, lo, hi) == IF lo >= Min(hi, Len(b)) THEN <<>> ELSE SubSeq(b, lo + 1, Min(hi, Len(b)))

\* struct '!H' and '!I'/'!L' at 1-based position i (network byte order)
U16(b, i) == b[i] * 256 + b[i + 1]
U32(b, i) == ((b[i] * 256 + b[i + 1]) * 256 + b[i + 2]) * 256 + b[i + 3]

\* The wire encodings the inputs are built with
Be16(v) == << (v \div 256) % 256, v % 256 >>
Be32(v) == << (v \div 16777216) % 256, (v \div 65536) % 256, (v \div 256) % 256, v % 256 >>

\* ------------------------------------------------------- attribute values
\* A decoded attribute value: None, an address text, or what struct.unpack_from
\* returns (a tuple).
NoneVal == [kind |-> "None", text |-> "", items |-> <<>>]
TextVal(k, t, g) == [kind |-> k, text |-> t, items |-> g]
TupleVal(t) == [kind |-> "tuple", text |-> "", items |-> t]

\* addrconv.ipv4.bin_to_text: the dotted-decimal text of exactly 4 bytes
Ipv4BinToText(d) ==
    TextVal("ipv4",
            ToString(d[1]) \o "." \o ToString(d[2]) \o "." \o ToString(d[3]) \o "." \o ToString(d[4]),
            <<>>)

\* addrconv.ipv6.bin_to_text: the address of exactly 16 bytes, kept as its eight
\* 16-bit groups (the textual compression is the library's)
Ipv6BinToText(d) ==
    TextVal("ipv6", "", [i \in 1..8 |-> U16(d, 2 * i - 1)])

NoAttr == [cls |-> "None", length |-> 0, attr_type |-> 0, value |-> NoneVal]
Attr(c, l, t, v) == [cls |-> c, length |-> l, attr_type |-> t, value |-> v]
Made(f, a) == [fault |-> f, attr |-> a]

\* ------------------------------------------------- the attribute classes
\* RtAttrDst.__init__
RtAttrDst(length, attr_type, attr_data) ==
    IF length = 4
    THEN IF Len(attr_data) = 4
         THEN Made("none", Attr("RtAttrDst", length, attr_type, Ipv4BinToText(attr_data)))
         ELSE Made("struct.error", NoAttr)
    ELSE IF length = 16
    THEN IF Len(attr_data) = 16
         THEN Made("none", Attr("RtAttrDst", length, attr_type, Ipv6BinToText(attr_data)))
         ELSE Made("struct.error", NoAttr)
    ELSE Made("none", Attr("RtAttrDst", length, attr_type, NoneVal))

\* RtAttrGateway.__init__
RtAttrGateway(length, attr_type, attr_data) ==
    IF length = 4
    THEN IF Len(attr_data) = 4
         THEN Made("none", Attr("RtAttrGateway", length, attr_type, Ipv4BinToText(attr_data)))
         ELSE Made("struct.error", NoAttr)
    ELSE IF length = 16
    THEN IF Len(attr_data) = 16
         THEN Made("none", Attr("RtAttrGateway", length, attr_type, Ipv6BinToText(attr_data)))
         ELSE Made("struct.error", NoAttr)
    ELSE Made("none", Attr("RtAttrGateway", length, attr_type, NoneVal))

\* RtAttrOif.__init__: struct.unpack_from returns a tuple, here of one item
RtAttrOif(length, attr_type, attr_data) ==
    IF length # 4
    THEN Made("none", Attr("RtAttrOif", length, attr_type, NoneVal))
    ELSE IF ~namesBound
    THEN Made("NameError", NoAttr)
    ELSE IF Len(attr_data) < 4
    THEN Made("struct.error", NoAttr)
    ELSE Made("none", Attr("RtAttrOif", length, attr_type, TupleVal(<<U32(attr_data, 1)>>)))

\* RtAttrPriority.__init__
RtAttrPriority(length, attr_type, attr_data) ==
    IF length # 4
    THEN Made("none", Attr("RtAttrPriority", length, attr_type, NoneVal))
    ELSE IF ~namesBound
    THEN Made("NameError", NoAttr)
    ELSE IF Len(attr_data) < 4
    THEN Made("struct.error", NoAttr)
    ELSE Made("none", Attr("RtAttrPriority", length, attr_type, TupleVal(<<U32(attr_data, 1)>>)))

\* RtAttribute.attr_cls_map and get_attr_cls
get_attr_cls(type) ==
    CASE type = RTA_DST -> "RtAttrDst"
      [] type = RTA_OIF -> "RtAttrOif"
      [] type = RTA_GATEWAY -> "RtAttrGateway"
      [] type = RTA_PRIORITY -> "RtAttrPriority"
      [] OTHER -> "None"

\* attr_cls(length, attr_type, attr_data)
Construct(attr_cls, length, attr_type, attr_data) ==
    CASE attr_cls = "RtAttrDst" -> RtAttrDst(length, attr_type, attr_data)
      [] attr_cls = "RtAttrOif" -> RtAttrOif(length, attr_type, attr_data)
      [] attr_cls = "RtAttrGateway" -> RtAttrGateway(length, attr_type, attr_data)
      [] attr_cls = "RtAttrPriority" -> RtAttrPriority(length, attr_type, attr_data)

\* What a parser call gives: a raised fault, or (record, next class, rest)
Raised(f, b) == [fault |-> f, attr |-> NoAttr, rest |-> b]
Returned(a, b) == [fault |-> "none", attr |-> a, rest |-> b]

\* RtAttribute.parser
RtAttributeParser(b) ==
    IF ~namesBound
    THEN Raised("NameError", b)
    ELSE IF Len(b) < RtAttrMinLen
    THEN Returned(NoAttr, b)
    ELSE LET length == U16(b, 1)
             attr_type == U16(b, 3)
             attr_data == Slice(b, RtAttrMinLen, RtAttrMinLen + length)
             attr_cls == get_attr_cls(attr_type)
             rest == Drop(b, RtAttrMinLen + length)
         IN  IF attr_cls = "None"
             THEN Returned(NoAttr, rest)
             ELSE LET made == Construct(attr_cls, length, attr_type, attr_data)
                  IN  IF made.fault # "none"
                      THEN Raised(made.fault, b)
                      ELSE Returned(made.attr, rest)

\* ----------------------------------------------------------------- inputs
\* One attribute on the wire: its TLV header's fields and the payload bytes that
\* follow (fewer than length when the attribute is cut short).
WireAttr(t, l, d) == [attr_type |-> t, length |-> l, data |-> d]

AttrPool ==
    { WireAttr(RTA_DST, 4, <<10, 0, 0, 1>>),
      WireAttr(RTA_GATEWAY, 4, <<10, 0, 0, 254>>),
      WireAttr(RTA_OIF, 4, <<0, 0, 0, 3>>),
      WireAttr(RTA_PRIORITY, 4, <<0, 0, 0, 100>>),
      WireAttr(99, 4, <<1, 2, 3, 4>>),
      WireAttr(RTA_DST, 0, <<>>),
      WireAttr(RTA_DST, 8, <<0, 0, 0, 1, 0, 0, 0, 1>>),
      WireAttr(RTA_GATEWAY, 16, <<32, 1, 13, 184, 0, 0, 0, 0, 0, 0, 0, 0, 0, 0, 0, 1>>),
      WireAttr(RTA_OIF, 2, <<0, 3>>),
      WireAttr(RTA_DST, 20, <<1, 2, 3, 4, 5, 6, 7, 8, 9, 10>>) }

AttrSeqs == UNION { [1..n -> AttrPool] : n \in 0..MaxAttrs }

AttrBytes(a) == Be16(a.length) \o Be16(a.attr_type) \o a.data

RECURSIVE PayloadBytes(_)
PayloadBytes(as) == IF as = <<>> THEN <<>> ELSE AttrBytes(Head(as)) \o PayloadBytes(Tail(as))

\* '!BBBBBBBBL': eight bytes and a 32-bit flags word
RtHeaderBytes(family) == <<family, 32, 0, 0, 254, 11, 0, RTM_NEWROUTE>> \o Be32(0)
NetlinkHeaderBytes(t, n) == Be32(NetlinkMinLen + n) \o Be16(t) \o Be16(1) \o Be32(1) \o Be32(1)
FpmHeaderBytes(v, t, n) == Be16(v) \o Be16(t) \o Be32(FpmMinLen + n)

Entries == {"FpmHeader", "Netlink", "RtNetlink"}
Versions == {1, 2}
MsgTypes == {1, 2}
NlTypes == {RTM_NEWROUTE, 7}
Families == {2, 10}

RtBytes(family, as) == RtHeaderBytes(family) \o PayloadBytes(as)
NlBytes(t, family, as) == NetlinkHeaderBytes(t, Len(RtBytes(family, as))) \o RtBytes(family, as)
FpmBytes(v, t, nt, family, as) ==
    FpmHeaderBytes(v, t, Len(NlBytes(nt, family, as))) \o NlBytes(nt, family, as)

FrameBytes(e, v, t, nt, family, as) ==
    CASE e = "FpmHeader" -> FpmBytes(v, t, nt, family, as)
      [] e = "Netlink" -> NlBytes(nt, family, as)
      [] e = "RtNetlink" -> RtBytes(family, as)

\* Python buf[:n]
Prefix(b, n) == IF n <= 0 THEN <<>> ELSE SubSeq(b, 1, Min(n, Len(b)))

NoHdr == [address_family |-> 0, dst_len |-> 0, src_len |-> 0, tos |-> 0, table |-> 0,
          protocol |-> 0, scope |-> 0, msg_type |-> 0, flags |-> 0]
NoRec == [cls |-> "None"]

Start(nb, e, as, c, b) ==
    /\ namesBound = nb
    /\ wire = as
    /\ cut = c
    /\ input = b
    /\ entry = e
    /\ stage = e
    /\ buf = b
    /\ calls = <<>>
    /\ rtbuf = <<>>
    /\ rt_hdr = NoHdr
    /\ rt_atts = <<>>
    /\ iters = 0
    /\ cursors = <<>>
    /\ built = <<>>
    /\ fault = "none"

\* Whole frames with up to MaxAttrs attributes, up to MaxCut bytes cut off the end
InitFrame ==
    \E nb \in BOOLEAN, e \in {"FpmHeader", "RtNetlink"}, v \in Versions, t \in MsgTypes,
       nt \in NlTypes, family \in Families, as \in AttrSeqs, c \in 0..MaxCut :
        /\ e = "RtNetlink" => (v = 1 /\ t = 1 /\ nt = RTM_NEWROUTE)
        /\ (v # 1 \/ t # 1) => (nt = RTM_NEWROUTE /\ family = 2)
        /\ c <= Len(PayloadBytes(as))
        /\ LET full == FrameBytes(e, v, t, nt, family, as)
           IN  Start(nb, e, as, c, Prefix(full, Len(full) - c))

\* Header-only frames cut to their first n bytes, n up to ProbeLen
InitProbe ==
    \E nb \in BOOLEAN, e \in Entries, v \in Versions, t \in MsgTypes, n \in 0..ProbeLen :
        /\ e # "FpmHeader" => (v = 1 /\ t = 1)
        /\ LET full == FrameBytes(e, v, t, RTM_NEWROUTE, 2, <<>>)
           IN  /\ n < Len(full)
               /\ Start(nb, e, <<>>, Len(full) - n, Prefix(full, n))

Init == InitFrame \/ InitProbe

\* ------------------------------------------------------------ the parsers
Call(c, arg, f, rec, next, rest) ==
    [cls |-> c, arg |-> arg, fault |-> f, rec |-> rec, next |-> next, rest |-> rest]

\* A reader that takes a short buffer as if zeros followed it
UnpackPadded(size, b) ==
    [raised |-> FALSE, data |-> [i \in 1..size |-> IF i <= Len(b) THEN b[i] ELSE 0]]

\* struct.unpack_from(fmt, buf): struct.error on a buffer shorter than calcsize(fmt),
\* else the fields of its first calcsize(fmt) bytes
StructUnpack(size, b) ==
    IF Len(b) < size
    THEN [raised |-> TRUE, data |-> <<>>]
    ELSE [raised |-> FALSE, data |-> SubSeq(b, 1, size)]

Raise(c, f) ==
    /\ calls' = Append(calls, Call(c, buf, f, NoRec, "None", buf))
    /\ fault' = f
    /\ stage' = "raised"
    /\ UNCHANGED buf

\* A parser returned (rec, next, rest): the caller goes on with next, if any
Return(c, rec, next, rest) ==
    /\ calls' = Append(calls, Call(c, buf, "none", rec, next, rest))
    /\ buf' = rest
    /\ stage' = IF next = "None" THEN "done" ELSE next
    /\ UNCHANGED fault

\* FpmHeader.parser (with FpmHeader.__init__)
FpmHeaderParser ==
    /\ stage = "FpmHeader"
    /\ IF StructUnpack(FpmMinLen, buf).raised
       THEN Raise("FpmHeader", "struct.error")
       ELSE LET hdr == StructUnpack(FpmMinLen, buf).data
                version == U16(hdr, 1)
                msg_type == U16(hdr, 3)
                length == U32(hdr, 5)
            IN  IF version # 1
                THEN Return("FpmHeader", NoRec, "None", buf)
                ELSE IF msg_type # 1
                THEN Return("FpmHeader", NoRec, "None", buf)
                ELSE IF ~namesBound
                THEN Raise("FpmHeader", "TypeError")
                ELSE Return("FpmHeader",
                            [cls |-> "FpmHeader", version |-> version,
                             msg_type |-> msg_type, length |-> length],
                            "Netlink", Drop(buf, FpmMinLen))
    /\ UNCHANGED << namesBound, wire, cut, input, entry, rtbuf, rt_hdr, rt_atts, iters, cursors,
                    built >>

\* Netlink.parser (with Netlink.__init__)
NetlinkParser ==
    /\ stage = "Netlink"
    /\ IF StructUnpack(NetlinkMinLen, buf).raised
       THEN Raise("Netlink", "struct.error")
       ELSE LET hdr == StructUnpack(NetlinkMinLen, buf).data
            IN  Return("Netlink",
                       [cls |-> "Netlink", length |-> U32(hdr, 1), msg_type |-> U16(hdr, 5),
                        flags |-> U16(hdr, 7), sequence |-> U32(hdr, 9),
                        process_port_id |-> U32(hdr, 13)],
                       "RtNetlink", Drop(buf, NetlinkMinLen))
    /\ UNCHANGED << namesBound, wire, cut, input, entry, rtbuf, rt_hdr, rt_atts, iters, cursors,
                    built >>

\* RtNetlink.parser, lines 75-79: the header, the slice past it, rt_atts = []
RtNetlinkParser ==
    /\ stage = "RtNetlink"
    /\ IF StructUnpack(RtNetlinkMinLen, buf).raised
       THEN /\ Raise("RtNetlink", "struct.error")
            /\ UNCHANGED << rtbuf, rt_hdr, rt_atts, iters, cursors >>
       ELSE /\ rtbuf' = buf
            /\ rt_hdr' = LET hdr == StructUnpack(RtNetlinkMinLen, buf).data
                         IN  [address_family |-> hdr[1], dst_len |-> hdr[2], src_len |-> hdr[3],
                              tos |-> hdr[4], table |-> hdr[5], protocol |-> hdr[6],
                              scope |-> hdr[7], msg_type |-> hdr[8], flags |-> U32(hdr, 9)]
            /\ buf' = Drop(buf, RtNetlinkMinLen)
            /\ rt_atts' = <<>>
            /\ iters' = 0
            /\ cursors' = <<>>
            /\ stage' = "attrs"
            /\ UNCHANGED << calls, fault >>
    /\ UNCHANGED << namesBound, wire, cut, input, entry, built >>

\* The caller's second slice of line 88: buf = buf[rt_attr.length:]
Advance(rest, rt_attr) == Drop(rest, rt_attr.length)

\* The constructor call RtAttribute.parser makes on b (line 150), if it makes one
Built(b) ==
    IF namesBound /\ Len(b) >= RtAttrMinLen /\ get_attr_cls(U16(b, 3)) # "None"
    THEN LET length == U16(b, 1)
             attr_data == Slice(b, RtAttrMinLen, RtAttrMinLen + length)
         IN  << [cls |-> get_attr_cls(U16(b, 3)), length |-> length, attr_type |-> U16(b, 3),
                 attr_data |-> attr_data,
                 out |-> Construct(get_attr_cls(U16(b, 3)), length, U16(b, 3), attr_data)] >>
    ELSE <<>>

\* One body of the while loop, lines 81-88
AttrLoop ==
    /\ stage = "attrs"
    /\ buf # <<>>
    /\ iters' = iters + 1
    /\ built' = built \o Built(buf)
    /\ LET got == RtAttributeParser(buf)
       IN  IF got.fault # "none"
           THEN /\ calls' = Append(calls, Call("RtNetlink", rtbuf, got.fault, NoRec, "None", rtbuf))
                /\ fault' = got.fault
                /\ stage' = "raised"
                /\ UNCHANGED << buf, rt_atts, cursors >>
           ELSE IF got.attr = NoAttr
           THEN /\ buf' = got.rest
                /\ stage' = "break"
                /\ UNCHANGED << calls, fault, rt_atts, cursors >>
           ELSE /\ rt_atts' = Append(rt_atts, got.attr)
                /\ buf' = Advance(got.rest, got.attr)
                /\ cursors' = Append(cursors, Len(rtbuf) - Len(buf'))
                /\ UNCHANGED << calls, fault, stage >>
    /\ UNCHANGED << namesBound, wire, cut, input, entry, rtbuf, rt_hdr >>

\* RtNetlink.parser, lines 90-92 (with RtNetlink.__init__), after the loop ended
RtNetlinkReturn ==
    /\ \/ stage = "attrs" /\ buf = <<>>
       \/ stage = "break"
    /\ calls' = Append(calls, Call("RtNetlink", rtbuf, "none",
                                   [cls |-> "RtNetlink", hdr |-> rt_hdr, rt_attrs |-> rt_atts],
                                   "None", buf))
    /\ stage' = "done"
    /\ UNCHANGED << namesBound, wire, cut, input, entry, buf, rtbuf, rt_hdr, rt_atts, iters,
                    cursors, built, fault >>

Next == FpmHeaderParser \/ NetlinkParser \/ RtNetlinkParser \/ AttrLoop \/ RtNetlinkReturn

Spec == Init /\ [][Next]_vars

\* ------------------------------------------------------------- the claims
\* The TLV layout of section 6 read off a payload: the attributes that are wholly
\* present, in order, and the bytes left where that reading stops.
RECURSIVE WireAttrs(_)
WireAttrs(b) ==
    IF Len(b) < 4 \/ Len(b) - 4 < U16(b, 1)
    THEN <<>>
    ELSE << WireAttr(U16(b, 3), U16(b, 1), Slice(b, 4, 4 + U16(b, 1))) >>
         \o WireAttrs(Drop(b, 4 + U16(b, 1)))

RECURSIVE WireLeft(_)
WireLeft(b) ==
    IF Len(b) < 4 \/ Len(b) - 4 < U16(b, 1)
    THEN b
    ELSE WireLeft(Drop(b, 4 + U16(b, 1)))

RtPayload == Drop(rtbuf, 12)
WellFormedPayload == WireLeft(RtPayload) = <<>>
TruncatedPayload == Len(WireLeft(RtPayload)) >= 4
Recognised(as) == \A i \in DOMAIN as : as[i].attr_type \in {1, 4, 5, 6}

\* A plain integer, which is what the specification has oif and priority be
IntVal(v) == [kind |-> "int", text |-> "", items |-> <<v>>]

\* The value the specification gives an attribute of the wire
ExpectedValue(a) ==
    IF a.attr_type \in {1, 5} /\ a.length = 4 /\ Len(a.data) = 4 THEN Ipv4BinToText(a.data)
    ELSE IF a.attr_type \in {1, 5} /\ a.length = 16 /\ Len(a.data) = 16 THEN Ipv6BinToText(a.data)
    ELSE IF a.attr_type \in {4, 6} /\ a.length = 4 /\ Len(a.data) = 4 THEN IntVal(U32(a.data, 1))
    ELSE NoneVal

\* The same address or number, be the number an integer or a tuple of one
SameValue(v, e) == v.text = e.text /\ v.items = e.items

\* rt_attrs is the wire's attributes as, one for one and in order
SameAttrs(rt_attrs, as) ==
    /\ Len(rt_attrs) = Len(as)
    /\ \A i \in DOMAIN as :
          /\ rt_attrs[i].attr_type = as[i].attr_type
          /\ rt_attrs[i].length = as[i].length
          /\ SameValue(rt_attrs[i].value, ExpectedValue(as[i]))

\* As SameAttrs, the decoded values left aside
SameHeaders(rt_attrs, as) ==
    /\ Len(rt_attrs) = Len(as)
    /\ \A i \in DOMAIN as :
          /\ rt_attrs[i].attr_type = as[i].attr_type
          /\ rt_attrs[i].length = as[i].length

RECURSIVE SumTlv(_)
SumTlv(as) == IF as = <<>> THEN 0 ELSE 4 + Head(as).length + SumTlv(Tail(as))

Ended == stage \in {"done", "raised"}
LastCall == calls[Len(calls)]
RtEnded == Ended /\ rtbuf # <<>>
RtReturned == RtEnded /\ stage = "done" /\ LastCall.cls = "RtNetlink"

\* C1: FpmHeader.parser on a buffer of at least 8 bytes returns (FpmHeader, Netlink,
\* buf[8:]) when version = 1 and msg_type = 1, and (None, None, buf) otherwise.
C1_FpmGate ==
    \A i \in DOMAIN calls :
        (calls[i].cls = "FpmHeader" /\ Len(calls[i].arg) >= 8) =>
            IF U16(calls[i].arg, 1) = 1 /\ U16(calls[i].arg, 3) = 1
            THEN /\ calls[i].fault = "none"
                 /\ calls[i].rec.cls = "FpmHeader"
                 /\ calls[i].next = "Netlink"
                 /\ calls[i].rest = Drop(calls[i].arg, 8)
            ELSE /\ calls[i].fault = "none"
                 /\ calls[i].rec = NoRec
                 /\ calls[i].next = "None"
                 /\ calls[i].rest = calls[i].arg

\* C2: after the k-th appended attribute the cursor is at offset
\* 12 + sum over i <= k of (4 + length_i) of RtNetlink.parser's input (checked on
\* payloads of whole attributes, with the names bound).
C2_CursorExact ==
    (namesBound /\ WellFormedPayload) =>
        \A k \in DOMAIN cursors : cursors[k] = 12 + SumTlv(SubSeq(rt_atts, 1, k))

\* C3: a payload of n whole attributes of recognised types decodes to exactly those
\* n attributes, in wire order, with their values (oif = 3, priority = 100, ...).
C3_WireOrder ==
    (namesBound /\ RtEnded /\ WellFormedPayload /\ Recognised(WireAttrs(RtPayload))) =>
        /\ RtReturned
        /\ SameAttrs(LastCall.rec.rt_attrs, WireAttrs(RtPayload))

\* C4: when an attribute declares more payload than remains, RtNetlink.parser still
\* returns a message, whose attributes are exactly those before that attribute.
C4_Truncation ==
    (namesBound /\ RtEnded /\ TruncatedPayload) =>
        /\ RtReturned
        /\ SameHeaders(LastCall.rec.rt_attrs, WireAttrs(RtPayload))

\* C5: an attribute of a type outside {1, 4, 5, 6} is appended as well and the loop
\* goes on: every whole attribute of the wire is in the returned list.
C5_UnknownKept ==
    (namesBound /\ RtEnded /\ WellFormedPayload /\ ~Recognised(WireAttrs(RtPayload))) =>
        /\ RtReturned
        /\ SameHeaders(LastCall.rec.rt_attrs, WireAttrs(RtPayload))

MinLenOf(c) ==
    CASE c = "FpmHeader" -> FpmMinLen
      [] c = "Netlink" -> NetlinkMinLen
      [] c = "RtNetlink" -> RtNetlinkMinLen

\* The header size the specification gives each parser (12 for Netlink)
ClaimedLenOf(c) == IF c = "FpmHeader" THEN 8 ELSE 12

\* C6 as stated: a parser given fewer bytes than its header returns an explicit
\* insufficient-data result; nothing is thrown.
C6_ReturnedValue ==
    \A i \in DOMAIN calls :
        Len(calls[i].arg) < ClaimedLenOf(calls[i].cls) => calls[i].fault = "none"

\* C6 as amended: a parser given fewer bytes than its header (8, 16 and 12 bytes)
\* raises struct.error out of the call: no record, no next stage, no further
\* parser runs, and no field is read from the short buffer.
C6_RaisesStructError ==
    \A i \in DOMAIN calls :
        Len(calls[i].arg) < MinLenOf(calls[i].cls) =>
            /\ calls[i].fault = "struct.error"
            /\ calls[i].rec = NoRec
            /\ calls[i].next = "None"
            /\ i = Len(calls)
            /\ stage = "raised"
            /\ fault = "struct.error"

\* C6, a case of it: the chain went past FPM and Netlink.parser was handed a
\* short, non-empty buffer
C6_Witness ==
    /\ Len(calls) = 2
    /\ calls[1].cls = "FpmHeader" /\ calls[1].fault = "none"
    /\ calls[2].cls = "Netlink" /\ Len(calls[2].arg) < NetlinkMinLen
    /\ Len(calls[2].arg) > 0
    /\ stage = "raised"

\* C7: the declared length alone selects the decoding: Destination/Gateway carry
\* an IPv4 address for length 4, an IPv6 address for length 16, else none;
\* OutputInterface/Priority carry the big-endian uint32 (one integer) for length 4,
\* else none; nothing is made of a payload of another size.
C7_VariantByLength ==
    namesBound =>
        \A i \in DOMAIN built :
            LET e == built[i]
            IN  IF Len(e.attr_data) = e.length
                THEN /\ e.out.fault = "none"
                     /\ e.out.attr.value
                          = ExpectedValue(WireAttr(e.attr_type, e.length, e.attr_data))
                ELSE e.out.fault = "none" => e.out.attr.value = NoneVal

FrameHeaders == FpmMinLen + NetlinkMinLen + RtNetlinkMinLen

\* C8: on an accepted FPM header, a Netlink header, an RTNETLINK header and whole
\* attributes the stages run FPM, Netlink, RtNetlink and stop, and the message has
\* the wire's address_family and all its attributes.
C8_EndToEnd ==
    ( /\ namesBound /\ Ended /\ entry = "FpmHeader"
      /\ Len(input) >= FrameHeaders
      /\ U16(input, 1) = 1 /\ U16(input, 3) = 1
      /\ WireLeft(Drop(input, FrameHeaders)) = <<>>
      /\ Recognised(WireAttrs(Drop(input, FrameHeaders))) ) =>
        /\ stage = "done"
        /\ [i \in DOMAIN calls |-> calls[i].cls] = <<"FpmHeader", "Netlink", "RtNetlink">>
        /\ [i \in DOMAIN calls |-> calls[i].next] = <<"Netlink", "RtNetlink", "None">>
        /\ LastCall.rec.hdr.address_family = input[FpmMinLen + NetlinkMinLen + 1]
        /\ SameAttrs(LastCall.rec.rt_attrs, WireAttrs(Drop(input, FrameHeaders)))

\* C9: when the loop stops before the payload is used up, the returned buffer is
\* the suffix that was not decoded into a returned attribute:
\* 12 + sum of (4 + length) over the returned attributes + len(returned buffer)
\* = len(input).
C9_NothingDiscarded ==
    (namesBound /\ RtReturned /\ ~WellFormedPayload) =>
        /\ LastCall.rec.rt_attrs = rt_atts
        /\ 12 + SumTlv(LastCall.rec.rt_attrs) + Len(LastCall.rest) = Len(rtbuf)

\* C10: the loop runs at most once per attribute of the wire (and once more to find
\* that it must stop): every body stops the loop or takes at least 4 bytes.
C10_OncePerAttribute ==
    namesBound =>
        iters <= Len(WireAttrs(RtPayload)) + (IF WellFormedPayload THEN 0 ELSE 1)
====
